---------------------------- MODULE Spec2Model ----------------------------
(***************************************************************************)
(* Model of project_marmiton.py: the recipe scraper.                       *)
(*                                                                         *)
(* A page is the sequence of its elements in document order, which is the  *)
(* order BeautifulSoup's find, find_all and find_next walk.  A text is the *)
(* sequence of its characters, so that strip() and split() are computed.   *)
(***************************************************************************)
EXTENDS Integers, Sequences, FiniteSets, TLC

(***************************************************************************)
(* Bounds of the model.                                                    *)
(***************************************************************************)
MaxLinks == 2
MaxAnchors == 3
MaxIngr == 3

None == "None"

(***************************************************************************)
(* Python str.strip() and str.split() with no argument.                    *)
(***************************************************************************)
Whitespace == {" ", "\n"}

RECURSIVE LStrip(_)
LStrip(s) ==
    IF s = <<>> \/ Head(s) \notin Whitespace THEN s ELSE LStrip(Tail(s))

RECURSIVE RStrip(_)
RStrip(s) ==
    IF s = <<>> \/ s[Len(s)] \notin Whitespace
    THEN s
    ELSE RStrip(SubSeq(s, 1, Len(s) - 1))

\* the variant that trims the left side only
StripLeft(s) == LStrip(s)

Strip(s) == RStrip(LStrip(s))

RECURSIVE WordLen(_)
WordLen(s) ==
    IF s = <<>> \/ Head(s) \in Whitespace THEN 0 ELSE 1 + WordLen(Tail(s))

RECURSIVE Split(_)
Split(s) ==
    LET t == LStrip(s)
        n == WordLen(t)
    IN  IF t = <<>>
        THEN <<>>
        ELSE <<SubSeq(t, 1, n)>> \o Split(SubSeq(t, n + 1, Len(t)))

(***************************************************************************)
(* Elements and the document queries of BeautifulSoup.                     *)
(* An element carries its tag, its class attribute, its href and data-name *)
(* attributes (None when the attribute is missing) and its text.           *)
(***************************************************************************)
El(tag, cls, href, name, text) ==
    [tag |-> tag, cls |-> cls, href |-> href, name |-> name, text |-> text]

(***************************************************************************)
(* A selector is what find, find_all and find_next are given: a tag name   *)
(* and, for each attribute, a value to equal, Present for attrs={..: True} *)
(* or AnyValue when the call does not mention the attribute.               *)
(***************************************************************************)
AnyValue == "*"
Present == "True"

Sel(tag, cls, href, name) == [tag |-> tag, cls |-> cls, href |-> href, name |-> name]

AttrMatches(value, wanted) ==
    \/ wanted = AnyValue
    \/ wanted = Present /\ value # None
    \/ wanted \notin {AnyValue, Present} /\ value = wanted

Matches(e, sel) ==
    /\ e.tag = sel.tag
    /\ AttrMatches(e.cls, sel.cls)
    /\ AttrMatches(e.href, sel.href)
    /\ AttrMatches(e.name, sel.name)

RecipeCardLink == Sel("a", "recipe-card-link", AnyValue, AnyValue)
H1 == Sel("h1", AnyValue, AnyValue, AnyValue)
RatingText == Sel("span", "recipe-header__rating-text", AnyValue, AnyValue)
CommentIcon == Sel("i", "icon icon-icon_comment", AnyValue, AnyValue)
ReviewAnchor == Sel("a", AnyValue, "#topReviewsTitle", AnyValue)
DifficultyIcon == Sel("i", "icon icon-difficulty", AnyValue, AnyValue)
TimerIcon == Sel("i", "icon icon-timer1", AnyValue, AnyValue)
Span == Sel("span", AnyValue, AnyValue, AnyValue)
CardIngredient == Sel("div", "card-ingredient", AnyValue, Present)
Count == Sel("span", "count", AnyValue, AnyValue)

\* soup.find(...): the first matching element, 0 standing for Python's None
Find(soup, sel) ==
    IF \E i \in DOMAIN soup : Matches(soup[i], sel)
    THEN CHOOSE i \in DOMAIN soup :
            Matches(soup[i], sel) /\ \A j \in 1..(i - 1) : ~Matches(soup[j], sel)
    ELSE 0

\* tag.find_next(...): the first matching element after position k
FindNext(soup, k, sel) ==
    IF \E i \in (k + 1)..Len(soup) : Matches(soup[i], sel)
    THEN CHOOSE i \in (k + 1)..Len(soup) :
            Matches(soup[i], sel) /\ \A j \in (k + 1)..(i - 1) : ~Matches(soup[j], sel)
    ELSE 0

\* soup.find_all(...): the positions of all matching elements, in order
FindAll(soup, sel) ==
    LET hits == {i \in DOMAIN soup : Matches(soup[i], sel)}
    IN  [k \in 1..Cardinality(hits) |->
            CHOOSE i \in hits : Cardinality({j \in hits : j < i}) = k - 1]

(***************************************************************************)
(* requests.get: either raises (a network failure, an invalid URL) or      *)
(* returns a response with a status code and a body.                       *)
(***************************************************************************)
Raise(exc) == [ok |-> FALSE, exc |-> exc]
Response(status, text) == [ok |-> TRUE, status |-> status, text |-> text]

(***************************************************************************)
(* scrape_recipe_links, given what requests.get(url) did.  The status code *)
(* of the response is never read; link.get('href') is None for an anchor   *)
(* with no href, and the value is appended as it is.                       *)
(***************************************************************************)
\* the variant that keeps only the anchors that have an href
scrape_recipe_links_filtered(response) ==
    IF ~response.ok
    THEN Raise(response.exc)
    ELSE [ok |-> TRUE,
          links |-> LET soup == response.text
                        recipe_links == FindAll(soup, Sel("a", "recipe-card-link", Present, AnyValue))
                    IN  [k \in DOMAIN recipe_links |-> soup[recipe_links[k]].href]]

\* the variant that calls response.raise_for_status() before parsing
scrape_recipe_links_checked(response) ==
    IF ~response.ok
    THEN Raise(response.exc)
    ELSE IF response.status \notin 200..299
    THEN Raise("HTTPError")
    ELSE LET soup == response.text
             recipe_links == FindAll(soup, RecipeCardLink)
         IN  [ok |-> TRUE,
              links |-> [k \in DOMAIN recipe_links |-> soup[recipe_links[k]].href]]

scrape_recipe_links(response) ==
    IF ~response.ok
    THEN Raise(response.exc)
    ELSE LET soup == response.text
             recipe_links == FindAll(soup, RecipeCardLink)
         IN  [ok |-> TRUE,
              links |-> [k \in DOMAIN recipe_links |-> soup[recipe_links[k]].href]]

(***************************************************************************)
(* recipe_type: three comparisons; falling off the end returns None.       *)
(***************************************************************************)
\* the variant with an else branch: any other url is a dessert
recipe_type_else(url) ==
    IF url = "https://www.marmiton.org/recettes/top-internautes-entree.aspx"
    THEN "entree"
    ELSE IF url = "https://www.marmiton.org/recettes/top-internautes-plat-principal.aspx"
    THEN "plat"
    ELSE "dessert"

recipe_type(url) ==
    IF url = "https://www.marmiton.org/recettes/top-internautes-entree.aspx"
    THEN "entree"
    ELSE IF url = "https://www.marmiton.org/recettes/top-internautes-plat-principal.aspx"
    THEN "plat"
    ELSE IF url = "https://www.marmiton.org/recettes/top-internautes-dessert.aspx"
    THEN "dessert"
    ELSE None

\* create_database: the three listing urls (lines 164-166)
url_entree == "https://www.marmiton.org/recettes/top-internautes-entree.aspx"
url_plat == "https://www.marmiton.org/recettes/top-internautes-plat-principal.aspx"
url_dessert == "https://www.marmiton.org/recettes/top-internautes-dessert.aspx"

(***************************************************************************)
(* The ingredients dictionary: a Python dict keeps insertion order, and    *)
(* assigning to a key already present replaces the value in place.         *)
(***************************************************************************)
\* the variant that keeps the first value of a key (dict.setdefault)
DictSetDefault(dict, key, value) ==
    IF \E i \in DOMAIN dict : dict[i].key = key
    THEN dict
    ELSE Append(dict, [key |-> key, value |-> value])

DictSet(dict, key, value) ==
    IF \E i \in DOMAIN dict : dict[i].key = key
    THEN [i \in DOMAIN dict |->
            IF dict[i].key = key THEN [key |-> key, value |-> value] ELSE dict[i]]
    ELSE Append(dict, [key |-> key, value |-> value])

\* the loop of lines 96-100 over the remaining ingredient tags
RECURSIVE IngredientsLoop(_, _, _)
IngredientsLoop(soup, tags, dict) ==
    IF tags = <<>>
    THEN [ok |-> TRUE, dict |-> dict]
    ELSE LET tag == Head(tags)
             quantity_tag == FindNext(soup, tag, Count)
         IN  IF quantity_tag = 0
             THEN Raise("AttributeError")
             ELSE IngredientsLoop(soup, Tail(tags),
                      DictSet(dict, soup[tag].name, Strip(soup[quantity_tag].text)))

(***************************************************************************)
(* scrape_recipe_data, given what requests.get(url) did.  Each lookup that *)
(* finds nothing yields None, and the attribute access on None raises.     *)
(***************************************************************************)
\* the variant that defaults a missing rating to the empty string
scrape_recipe_data_default(response) ==
    IF ~response.ok
    THEN Raise(response.exc)
    ELSE
    LET soup == response.text
        h1 == Find(soup, H1)
        rate == Find(soup, RatingText)
        comments_tag == Find(soup, CommentIcon)
        comments_a == FindNext(soup, comments_tag, ReviewAnchor)
        difficulty_tag == Find(soup, DifficultyIcon)
        difficulty_span == FindNext(soup, difficulty_tag, Span)
        timer_tag == Find(soup, TimerIcon)
        timer_span == FindNext(soup, timer_tag, Span)
        ingredients == IngredientsLoop(soup, FindAll(soup, CardIngredient), <<>>)
    IN  IF h1 = 0 THEN Raise("AttributeError")
                ELSE IF comments_tag = 0 THEN Raise("AttributeError")
        ELSE IF comments_a = 0 THEN Raise("AttributeError")
        ELSE IF difficulty_tag = 0 THEN Raise("AttributeError")
        ELSE IF difficulty_span = 0 THEN Raise("AttributeError")
        ELSE IF timer_tag = 0 THEN Raise("AttributeError")
        ELSE IF timer_span = 0 THEN Raise("AttributeError")
        ELSE IF ~ingredients.ok THEN Raise("AttributeError")
        ELSE [ok |-> TRUE,
              recipe_name |-> Strip(soup[h1].text),
              recipe_rate |-> IF rate = 0 THEN <<>> ELSE Strip(soup[rate].text),
              recipe_comments |-> Strip(soup[comments_a].text),
              recipe_difficulty |-> Strip(soup[difficulty_span].text),
              recipe_timer |-> Strip(soup[timer_span].text),
              ingredients_dict |-> ingredients.dict]

scrape_recipe_data(response) ==
    IF ~response.ok
    THEN Raise(response.exc)
    ELSE
    LET soup == response.text
        h1 == Find(soup, H1)
        rate == Find(soup, RatingText)
        comments_tag == Find(soup, CommentIcon)
        comments_a == FindNext(soup, comments_tag, ReviewAnchor)
        difficulty_tag == Find(soup, DifficultyIcon)
        difficulty_span == FindNext(soup, difficulty_tag, Span)
        timer_tag == Find(soup, TimerIcon)
        timer_span == FindNext(soup, timer_tag, Span)
        ingredients == IngredientsLoop(soup, FindAll(soup, CardIngredient), <<>>)
    IN  IF h1 = 0 THEN Raise("AttributeError")
        ELSE IF rate = 0 THEN Raise("AttributeError")
        ELSE IF comments_tag = 0 THEN Raise("AttributeError")
        ELSE IF comments_a = 0 THEN Raise("AttributeError")
        ELSE IF difficulty_tag = 0 THEN Raise("AttributeError")
        ELSE IF difficulty_span = 0 THEN Raise("AttributeError")
        ELSE IF timer_tag = 0 THEN Raise("AttributeError")
        ELSE IF timer_span = 0 THEN Raise("AttributeError")
        ELSE IF ~ingredients.ok THEN Raise("AttributeError")
        ELSE [ok |-> TRUE,
              recipe_name |-> Strip(soup[h1].text),
              recipe_rate |-> Strip(soup[rate].text),
              recipe_comments |-> Strip(soup[comments_a].text),
              recipe_difficulty |-> Strip(soup[difficulty_span].text),
              recipe_timer |-> Strip(soup[timer_span].text),
              ingredients_dict |-> ingredients.dict]

(***************************************************************************)
(* One iteration of the loop of scrape_recipes_info (lines 121-134): the   *)
(* row for one url, or the exception that leaves the loop.  split()[0] of  *)
(* a phrase with no token raises IndexError.                               *)
(***************************************************************************)
\* the variant that stores the whole comments phrase
scrape_recipes_info_row_phrase(response, url, type) ==
    LET data == scrape_recipe_data(response)
    IN  IF ~data.ok THEN Raise(data.exc)
        ELSE IF Split(data.recipe_comments) = <<>> THEN Raise("IndexError")
        ELSE [ok |-> TRUE,
              row |-> [RecipeType |-> type,
                       RecipeName |-> data.recipe_name,
                       Rating |-> data.recipe_rate,
                       Comments |-> data.recipe_comments,
                       Difficulty |-> data.recipe_difficulty,
                       Timer |-> data.recipe_timer,
                       Ingredients |-> data.ingredients_dict,
                       URL |-> url]]

scrape_recipes_info_row(response, url, type) ==
    LET data == scrape_recipe_data(response)
    IN  IF ~data.ok THEN Raise(data.exc)
        ELSE IF Split(data.recipe_comments) = <<>> THEN Raise("IndexError")
        ELSE [ok |-> TRUE,
              row |-> [RecipeType |-> type,
                       RecipeName |-> data.recipe_name,
                       Rating |-> data.recipe_rate,
                       Comments |-> Split(data.recipe_comments)[1],
                       Difficulty |-> data.recipe_difficulty,
                       Timer |-> data.recipe_timer,
                       Ingredients |-> data.ingredients_dict,
                       URL |-> url]]

(***************************************************************************)
(* append_dataframes: pd.concat(..., ignore_index=True) keeps the rows of  *)
(* each frame in order, frame after frame, and renumbers them from 0.      *)
(***************************************************************************)
RECURSIVE Concat(_)
Concat(dataframes) ==
    IF dataframes = <<>> THEN <<>>
    ELSE Head(dataframes) \o Concat(Tail(dataframes))

\* the variant that numbers the rows but puts the later frames first
append_dataframes_reversed(dataframes) ==
    LET rows == Concat([i \in DOMAIN dataframes |->
                            dataframes[Len(dataframes) + 1 - i]])
    IN  [i \in DOMAIN rows |-> [index |-> i - 1, row |-> rows[i]]]

append_dataframes(dataframes) ==
    LET rows == Concat(dataframes)
    IN  [i \in DOMAIN rows |-> [index |-> i - 1, row |-> rows[i]]]

(***************************************************************************)
(* The pages the model serves.                                             *)
(*                                                                         *)
(* A detail page is laid out as the site lays it out: heading, rating,     *)
(* comment icon and review anchor, difficulty icon and its span, timer     *)
(* icon and its span, then the ingredient cards, each followed by its      *)
(* count.  A block describes one card: its data-name (None when the card   *)
(* has none) and its count text (None when the card has no count element). *)
(* `removed` names one position of the header to leave out (0: none).      *)
(***************************************************************************)
BlockElements(b) ==
    <<El("div", "card-ingredient", None, b.name, <<>>)>>
    \o (IF b.hasCount THEN <<El("span", "count", None, None, b.count)>> ELSE <<>>)

RECURSIVE BlocksElements(_)
BlocksElements(blocks) ==
    IF blocks = <<>> THEN <<>>
    ELSE BlockElements(Head(blocks)) \o BlocksElements(Tail(blocks))

Header(t) ==
    << El("h1", "", None, None, t.name),
       El("span", "recipe-header__rating-text", None, None, t.rate),
       El("i", "icon icon-icon_comment", None, None, <<>>),
       El("a", "", "#topReviewsTitle", None, t.comments),
       El("i", "icon icon-difficulty", None, None, <<>>),
       El("span", "", None, None, t.difficulty),
       El("i", "icon icon-timer1", None, None, <<>>),
       El("span", "", None, None, t.timer) >>

HeaderLen == Len(Header([name |-> <<>>, rate |-> <<>>, comments |-> <<>>,
                         difficulty |-> <<>>, timer |-> <<>>]))

Without(seq, k) ==
    IF k \in DOMAIN seq
    THEN SubSeq(seq, 1, k - 1) \o SubSeq(seq, k + 1, Len(seq))
    ELSE seq

DetailPage(t, blocks, removed) ==
    Without(Header(t), removed) \o BlocksElements(blocks)

Block(name, hasCount, count) ==
    [name |-> name, hasCount |-> hasCount, count |-> count]

Plain == [name |-> <<" ", "T", "\n">>,
          rate |-> <<"4", " ">>,
          comments |-> <<"4", "2", " ", "a", "v", "i", "s">>,
          difficulty |-> <<"\n", "f">>,
          timer |-> <<" ", "1", "h", " ">>]

Blank == <<" ", "\n">>

SeqsUpTo(S, n) == UNION {[1..k -> S] : k \in 0..n}

(***************************************************************************)
(* The detail pages of a run: what requests.get returns for each recipe    *)
(* url.  r/tarte is a whole page whose first card has no count of its own  *)
(* and whose ingredient "sel" comes twice; r/soupe is a whole page with no *)
(* ingredient card; each r/no-... page lacks one marker; r/no-avis has an  *)
(* empty review anchor; r/down does not answer; r/gone answers 404 with an *)
(* error page.                                                             *)
(***************************************************************************)
TarteBlocks == << Block("sel", FALSE, <<>>),
                  Block("oeuf", TRUE, <<" ", "2">>),
                  Block("sel", TRUE, <<"3", "\n">>) >>

NoCountBlocks == << Block("sel", TRUE, <<"1">>), Block("oeuf", FALSE, <<>>) >>

SoundUrls == {"r/tarte", "r/soupe"}

MissingMarkerUrls == {"r/no-h1", "r/no-rating", "r/no-comment-icon",
                      "r/no-review-anchor", "r/no-difficulty-icon",
                      "r/no-timer-icon", "r/no-count"}

DetailUrls == SoundUrls \cup MissingMarkerUrls \cup {"r/no-avis", "r/down", "r/gone"}

Web(url) ==
    CASE url = "r/tarte" -> Response(200, DetailPage(Plain, TarteBlocks, 0))
      [] url = "r/soupe" ->
            Response(200, DetailPage([Plain EXCEPT !.comments = <<"7">>], <<>>, 0))
      [] url = "r/no-h1" -> Response(200, DetailPage(Plain, TarteBlocks, 1))
      [] url = "r/no-rating" -> Response(200, DetailPage(Plain, TarteBlocks, 2))
      [] url = "r/no-comment-icon" -> Response(200, DetailPage(Plain, TarteBlocks, 3))
      [] url = "r/no-review-anchor" -> Response(200, DetailPage(Plain, TarteBlocks, 4))
      [] url = "r/no-difficulty-icon" -> Response(200, DetailPage(Plain, TarteBlocks, 5))
      [] url = "r/no-timer-icon" -> Response(200, DetailPage(Plain, TarteBlocks, 7))
      [] url = "r/no-count" -> Response(200, DetailPage(Plain, NoCountBlocks, 0))
      [] url = "r/no-avis" ->
            Response(200, DetailPage([Plain EXCEPT !.comments = Blank], TarteBlocks, 0))
      [] url = "r/down" -> Raise("ConnectionError")
      [] url = "r/gone" -> Response(404, <<El("p", "", None, None, <<"4", "0", "4">>)>>)

\* the values a link of a listing takes: a recipe url, or None for no href
LinkValues == DetailUrls \cup {None}

\* requests.get(url) on a recipe url: None is no url at all
requests_get(url) ==
    IF url = None THEN Raise("MissingSchema") ELSE Web(url)

(***************************************************************************)
(* The listing pages of a run: a heading and one recipe-card anchor per    *)
(* link, an anchor with no href giving None.  A listing holds at most one  *)
(* link that cannot be served whole: the run ends at the first such link,  *)
(* so a second one would never be fetched.  A listing url may also fail to *)
(* answer, or answer 404 with a page that holds no link or one link.       *)
(***************************************************************************)
ListingPage(hrefs) ==
    <<El("h1", "", None, None, <<"T">>)>>
    \o [i \in DOMAIN hrefs |-> El("a", "recipe-card-link", hrefs[i], None, <<>>)]

LinkSeqs ==
    {s \in SeqsUpTo(LinkValues, MaxLinks) :
        Cardinality({i \in DOMAIN s : s[i] \notin SoundUrls}) <= 1}

ListingResponses ==
    {Raise("ConnectionError")}
    \cup {Response(200, ListingPage(s)) : s \in LinkSeqs}
    \cup {Response(404, ListingPage(s)) : s \in {<<>>, <<"r/soupe">>}}

(***************************************************************************)
(* The pages are fixed for a run, so what each call gives is worked out    *)
(* once per argument: the response of requests.get for each recipe url,    *)
(* the links scrape_recipe_links returns for each listing response and the *)
(* row one iteration of scrape_recipes_info builds for each url and type.  *)
(***************************************************************************)
TypeValues == {"entree", "plat", "dessert", None}

Fetched == [u \in LinkValues |-> requests_get(u)]

LinksOf == [response \in ListingResponses |-> scrape_recipe_links(response)]

RowOfUrl ==
    [u \in LinkValues |->
        [t \in TypeValues |-> scrape_recipes_info_row(Fetched[u], u, t)]]

(***************************************************************************)
(* The run of the script: create_database() and the to_csv of line 178.    *)
(***************************************************************************)
VARIABLES
    pc,            \* the statement the run is at
    cat,           \* which of the three statements 169-171 is running
    urls,          \* scrape_recipes_info: its argument urls
    rtype,         \* scrape_recipes_info: its argument recipe_type
    idx,           \* scrape_recipes_info: position of the loop in urls
    recipes_info,  \* scrape_recipes_info: the list recipes_info
    df,            \* df_entree, df_plat, df_dessert, as far as assigned
    df_final,      \* create_database: df_final
    csv,           \* the file "DataFrame Marmiton.csv"
    fault,         \* the exception that ended the run, None if none
    log,           \* history: every requests.get issued and what it did
    fn, arg, ret   \* a single call of one function (specification SpecFn)

vars == <<pc, cat, urls, rtype, idx, recipes_info, df, df_final, csv, fault,
          log, fn, arg, ret>>

callVars == <<fn, arg, ret>>

\* the variant with the second and third statements exchanged
ListingUrlSwapped == <<url_entree, url_dessert, url_plat>>

ListingUrl == <<url_entree, url_plat, url_dessert>>

NotWritten == [written |-> FALSE, rows |-> <<>>]

InitRun ==
    /\ pc = "scrape_recipe_links"
    /\ cat = 1
    /\ urls = <<>>
    /\ rtype = None
    /\ idx = 1
    /\ recipes_info = <<>>
    /\ df = <<>>
    /\ df_final = <<>>
    /\ csv = NotWritten
    /\ fault = None
    /\ log = <<>>

Init ==
    /\ InitRun
    /\ fn = "create_database"
    /\ arg = None
    /\ ret = [done |-> FALSE]

\* an exception nobody catches: the interpreter exits, nothing else runs
Abort(exc) ==
    /\ pc' = "aborted"
    /\ fault' = exc
    /\ UNCHANGED <<cat, urls, rtype, idx, recipes_info, df, df_final, csv>>

LogEntry(kind, url, response) ==
    [kind |-> kind, cat |-> cat, idx |-> IF kind = "listing" THEN 0 ELSE idx,
     url |-> url, response |-> response]

\* lines 169-171, first half: scrape_recipe_links(url), then recipe_type(url),
\* then the call of scrape_recipes_info up to its loop
ScrapeRecipeLinks ==
    /\ pc = "scrape_recipe_links"
    /\ \E response \in ListingResponses :
          LET r == LinksOf[response]
          IN  /\ log' = Append(log, LogEntry("listing", ListingUrl[cat], response))
              /\ IF ~r.ok
                 THEN Abort(r.exc)
                 ELSE /\ urls' = r.links
                      /\ rtype' = recipe_type(ListingUrl[cat])
                      /\ recipes_info' = <<>>
                      /\ idx' = 1
                      /\ pc' = "scrape_recipes_info"
                      /\ UNCHANGED <<cat, df, df_final, csv, fault>>
    /\ UNCHANGED callVars

\* the variant of the loop that skips a url whose scraping raises
ScrapeRecipeDataSkip ==
    /\ pc = "scrape_recipes_info"
    /\ idx <= Len(urls)
    /\ LET url == urls[idx]
           response == Fetched[url]
           r == RowOfUrl[url][rtype]
       IN  /\ log' = Append(log, LogEntry("detail", url, response))
           /\ recipes_info' = IF r.ok THEN Append(recipes_info, r.row) ELSE recipes_info
           /\ idx' = idx + 1
           /\ UNCHANGED <<pc, cat, urls, rtype, df, df_final, csv, fault>>
    /\ UNCHANGED callVars

\* lines 121-134: one iteration of the loop over urls
ScrapeRecipeData ==
    /\ pc = "scrape_recipes_info"
    /\ idx <= Len(urls)
    /\ LET url == urls[idx]
           response == Fetched[url]
           r == RowOfUrl[url][rtype]
       IN  /\ log' = Append(log, LogEntry("detail", url, response))
           /\ IF ~r.ok
              THEN Abort(r.exc)
              ELSE /\ recipes_info' = Append(recipes_info, r.row)
                   /\ idx' = idx + 1
                   /\ UNCHANGED <<pc, cat, urls, rtype, df, df_final, csv, fault>>
    /\ UNCHANGED callVars

\* lines 136-138 and the assignment of 169, 170 or 171
ReturnDataframe ==
    /\ pc = "scrape_recipes_info"
    /\ idx > Len(urls)
    /\ df' = Append(df, recipes_info)
    /\ IF cat < 3
       THEN /\ cat' = cat + 1
            /\ pc' = "scrape_recipe_links"
       ELSE /\ pc' = "append_dataframes"
            /\ UNCHANGED cat
    /\ UNCHANGED <<urls, rtype, idx, recipes_info, df_final, csv, fault, log>>
    /\ UNCHANGED callVars

\* lines 174-176
AppendDataframes ==
    /\ pc = "append_dataframes"
    /\ df_final' = append_dataframes(df)
    /\ pc' = "to_csv"
    /\ UNCHANGED <<cat, urls, rtype, idx, recipes_info, df, csv, fault, log>>
    /\ UNCHANGED callVars

\* line 178
ToCsv ==
    /\ pc = "to_csv"
    /\ csv' = [written |-> TRUE, rows |-> df_final]
    /\ pc' = "done"
    /\ UNCHANGED <<cat, urls, rtype, idx, recipes_info, df, df_final, fault, log>>
    /\ UNCHANGED callVars

Next ==
    \/ ScrapeRecipeLinks
    \/ ScrapeRecipeData
    \/ ReturnDataframe
    \/ AppendDataframes
    \/ ToCsv

Spec == Init /\ [][Next]_vars

(***************************************************************************)
(* A single call of one of the three functions that take no part in the    *)
(* control flow, on an input drawn from a bounded set of pages and urls.   *)
(***************************************************************************)
ListingElements ==
    { El("a", "recipe-card-link", "r/tarte", None, <<>>),
      El("a", "recipe-card-link", "r/soupe", None, <<>>),
      El("a", "recipe-card-link", None, None, <<>>),
      El("a", "nav-link", "r/autre", None, <<>>),
      El("div", "recipe-card", None, None, <<>>) }

LinksInputs ==
    {Raise("ConnectionError")}
    \cup {Response(status, page) :
            status \in {200, 500}, page \in SeqsUpTo(ListingElements, MaxAnchors)}

TypeInputs ==
    { url_entree, url_plat, url_dessert,
      "https://www.marmiton.org/recettes/top-internautes-entree.aspx/",
      "https://www.marmiton.org/recettes/top-internautes-plat.aspx",
      "HTTPS://WWW.MARMITON.ORG/RECETTES/TOP-INTERNAUTES-DESSERT.ASPX",
      "entree", "r/tarte", "", None }

CommentTexts == { <<"4", "2", " ", "a", "v", "i", "s">>, <<"\n", "7", " ">>, Blank, <<>> }

TextChoices ==
    {[Plain EXCEPT !.comments = c] : c \in CommentTexts}
    \cup {[Plain EXCEPT ![f] = Blank] : f \in {"name", "rate", "difficulty", "timer"}}

Blocks ==
    {Block(name, FALSE, <<>>) : name \in {"sel", "oeuf"}}
    \cup {Block(name, TRUE, count) :
            name \in {"sel", "oeuf"}, count \in {<<"1">>, <<" ", "2", "\n">>}}
    \cup {Block(None, TRUE, <<"9">>)}

\* every text choice and every header position left out with up to two
\* cards, and the plain texts with up to MaxIngr cards, whole or without the
\* span of the difficulty or of the timer (the spans a count can stand in for)
DetailPages ==
    {DetailPage(t, blocks, removed) :
        t \in TextChoices, blocks \in SeqsUpTo(Blocks, 2), removed \in 0..HeaderLen}
    \cup {DetailPage(Plain, blocks, removed) :
            blocks \in SeqsUpTo(Blocks, MaxIngr), removed \in {0, 6, 8}}

DataInputs ==
    {Raise("ConnectionError")}
    \cup {Response(200, page) : page \in DetailPages}
    \cup {Response(404, DetailPage(Plain, <<>>, 0))}

InitFn ==
    /\ InitRun
    /\ ret = [done |-> FALSE]
    /\ \/ fn = "scrape_recipe_links" /\ arg \in LinksInputs
       \/ fn = "recipe_type" /\ arg \in TypeInputs
       \/ fn = "scrape_recipe_data" /\ arg \in DataInputs

runVars == <<pc, cat, urls, rtype, idx, recipes_info, df, df_final, csv, fault, log>>

CallScrapeRecipeLinks ==
    /\ fn = "scrape_recipe_links"
    /\ ~ret.done
    /\ ret' = [done |-> TRUE, value |-> scrape_recipe_links(arg)]
    /\ UNCHANGED <<fn, arg, runVars>>

CallRecipeType ==
    /\ fn = "recipe_type"
    /\ ~ret.done
    /\ ret' = [done |-> TRUE, value |-> recipe_type(arg)]
    /\ UNCHANGED <<fn, arg, runVars>>

CallScrapeRecipeData ==
    /\ fn = "scrape_recipe_data"
    /\ ~ret.done
    /\ ret' = [done |-> TRUE, value |-> scrape_recipe_data(arg)]
    /\ UNCHANGED <<fn, arg, runVars>>

NextFn ==
    \/ CallScrapeRecipeLinks
    \/ CallRecipeType
    \/ CallScrapeRecipeData

SpecFn == InitFn /\ [][NextFn]_vars

(***************************************************************************)
(* Properties of single calls (specification SpecFn).                      *)
(***************************************************************************)
\* the elements the scraper looks for, as a page shows them
IsRecipeCardLink(e) == e.tag = "a" /\ e.cls = "recipe-card-link"
IsH1(e) == e.tag = "h1"
IsRatingText(e) == e.tag = "span" /\ e.cls = "recipe-header__rating-text"
IsCommentIcon(e) == e.tag = "i" /\ e.cls = "icon icon-icon_comment"
IsReviewAnchor(e) == e.tag = "a" /\ e.href = "#topReviewsTitle"
IsDifficultyIcon(e) == e.tag = "i" /\ e.cls = "icon icon-difficulty"
IsTimerIcon(e) == e.tag = "i" /\ e.cls = "icon icon-timer1"
IsSpan(e) == e.tag = "span"
IsCardIngredient(e) ==
    e.tag = "div" /\ e.cls = "card-ingredient" /\ e.name # None
IsCount(e) == e.tag = "span" /\ e.cls = "count"

Returned(f) == fn = f /\ ret.done

\* C5: for a listing page with N recipe-card anchors scrape_recipe_links
\* returns exactly N entries, the k-th being the href of the k-th such anchor
\* in document order, and None where that anchor has no href: nothing is
\* filtered out and nothing fails.
C5_LinksInDocumentOrder ==
    (Returned("scrape_recipe_links") /\ arg.ok) =>
        LET anchors == SelectSeq(arg.text, IsRecipeCardLink)
        IN  /\ ret.value.ok
            /\ Len(ret.value.links) = Len(anchors)
            /\ \A k \in DOMAIN anchors : ret.value.links[k] = anchors[k].href

C5_Witness ==
    /\ Returned("scrape_recipe_links")
    /\ arg.ok
    /\ Len(arg.text) = 3
    /\ IsRecipeCardLink(arg.text[1]) /\ arg.text[1].href = None
    /\ ~IsRecipeCardLink(arg.text[2])
    /\ IsRecipeCardLink(arg.text[3]) /\ arg.text[3].href = "r/tarte"
    /\ ret.value.links = <<None, "r/tarte">>

\* C6: recipe_type gives "entree", "plat" and "dessert" for the three listing
\* urls of create_database, and for any other input it returns None: no label
\* and no exception.
C6_RecipeTypeClosed ==
    Returned("recipe_type") =>
        /\ arg = url_entree => ret.value = "entree"
        /\ arg = url_plat => ret.value = "plat"
        /\ arg = url_dessert => ret.value = "dessert"
        /\ arg \notin {url_entree, url_plat, url_dessert} => ret.value = None

C6_Witness ==
    /\ Returned("recipe_type")
    /\ arg = "https://www.marmiton.org/recettes/top-internautes-entree.aspx/"
    /\ ret.value = None

(***************************************************************************)
(* What a detail page holds, read off the page itself.                     *)
(***************************************************************************)
ReviewAnchorAfterIcon(page) ==
    \E i \in DOMAIN page :
        IsCommentIcon(page[i]) /\ \E j \in (i + 1)..Len(page) : IsReviewAnchor(page[j])

SpanAfterDifficultyIcon(page) ==
    \E i \in DOMAIN page :
        IsDifficultyIcon(page[i]) /\ \E j \in (i + 1)..Len(page) : IsSpan(page[j])

SpanAfterTimerIcon(page) ==
    \E i \in DOMAIN page :
        IsTimerIcon(page[i]) /\ \E j \in (i + 1)..Len(page) : IsSpan(page[j])

Cards(page) == {i \in DOMAIN page : IsCardIngredient(page[i])}

IsCardDiv(e) == e.tag = "div" /\ e.cls = "card-ingredient"

\* the card at i is followed by a count before the next card begins
HasOwnCount(page, i) ==
    \E j \in (i + 1)..Len(page) :
        IsCount(page[j]) /\ \A k \in (i + 1)..(j - 1) : ~IsCardDiv(page[k])

AllMarkersPresent(page) ==
    /\ \E i \in DOMAIN page : IsH1(page[i])
    /\ \E i \in DOMAIN page : IsRatingText(page[i])
    /\ ReviewAnchorAfterIcon(page)
    /\ SpanAfterDifficultyIcon(page)
    /\ SpanAfterTimerIcon(page)
    /\ \A i \in Cards(page) : HasOwnCount(page, i)

NonBlank(text) == \E k \in DOMAIN text : text[k] \notin Whitespace

Trimmed(v) == v = <<>> \/ (v[1] \notin Whitespace /\ v[Len(v)] \notin Whitespace)

\* v is text without the whitespace at its two ends
IsTrimOf(v, text) ==
    /\ Trimmed(v)
    /\ \E a \in 1..(Len(text) + 1) : \E b \in 0..Len(text) :
          /\ v = SubSeq(text, a, b)
          /\ \A k \in 1..(a - 1) : text[k] \in Whitespace
          /\ \A k \in (b + 1)..Len(text) : text[k] \in Whitespace

\* the quantity the card at i gets: the text of the next count element
QuantityOf(page, i) == page[FindNext(page, i, Count)].text

KeyIndex(dict, key) == CHOOSE k \in DOMAIN dict : dict[k].key = key

FirstCard(page, name) ==
    CHOOSE i \in Cards(page) :
        page[i].name = name /\ \A j \in Cards(page) : page[j].name = name => i <= j

LastCard(page, name) ==
    CHOOSE i \in Cards(page) :
        page[i].name = name /\ \A j \in Cards(page) : page[j].name = name => j <= i

\* C7 as stated: with every marker present the four strings are trimmed and
\* non-empty and the mapping has as many entries as the page has ingredient
\* blocks.
C7_Original ==
    (Returned("scrape_recipe_data") /\ arg.ok /\ AllMarkersPresent(arg.text)) =>
        LET d == ret.value
        IN  /\ d.ok
            /\ \A v \in {d.recipe_name, d.recipe_rate, d.recipe_difficulty, d.recipe_timer} :
                  v # <<>> /\ Trimmed(v)
            /\ Len(d.ingredients_dict) = Cardinality(Cards(arg.text))

\* C7, amended: with every marker present scrape_recipe_data succeeds; name,
\* rating, difficulty and timer are the texts of their elements without the
\* whitespace at both ends, each empty exactly when its element holds nothing
\* but whitespace; and the mapping has one entry per distinct name among the
\* ingredient blocks.
C7_TrimmedAndDistinctNames ==
    (Returned("scrape_recipe_data") /\ arg.ok /\ AllMarkersPresent(arg.text)) =>
        LET d == ret.value
            page == arg.text
            fields ==
                { <<d.recipe_name, page[Find(page, H1)].text>>,
                  <<d.recipe_rate, page[Find(page, RatingText)].text>>,
                  <<d.recipe_difficulty,
                    page[FindNext(page, Find(page, DifficultyIcon), Span)].text>>,
                  <<d.recipe_timer,
                    page[FindNext(page, Find(page, TimerIcon), Span)].text>> }
        IN  /\ d.ok
            /\ \A f \in fields :
                  /\ IsTrimOf(f[1], f[2])
                  /\ f[1] # <<>> <=> NonBlank(f[2])
            /\ Len(d.ingredients_dict)
                  = Cardinality({page[i].name : i \in Cards(page)})

C7_Witness ==
    /\ Returned("scrape_recipe_data")
    /\ arg.ok
    /\ AllMarkersPresent(arg.text)
    /\ ret.value.ok
    /\ ret.value.recipe_name = <<>>
    /\ Cardinality(Cards(arg.text)) = 2
    /\ Len(ret.value.ingredients_dict) = 1

\* C8: when scrape_recipe_data succeeds, each name among the ingredient blocks
\* is one key of the mapping, its value is the quantity of the last block of
\* that name in page order (never a combination of quantities), and the keys
\* stand in the order of the first blocks of their names.
C8_LastWriteWins ==
    (Returned("scrape_recipe_data") /\ ret.value.ok) =>
        LET page == arg.text
            dict == ret.value.ingredients_dict
            names == {page[i].name : i \in Cards(page)}
        IN  /\ {dict[k].key : k \in DOMAIN dict} = names
            /\ Len(dict) = Cardinality(names)
            /\ \A n \in names :
                  IsTrimOf(dict[KeyIndex(dict, n)].value,
                           QuantityOf(page, LastCard(page, n)))
            /\ \A n, m \in names :
                  KeyIndex(dict, n) < KeyIndex(dict, m)
                      <=> FirstCard(page, n) < FirstCard(page, m)

C8_Witness ==
    /\ Returned("scrape_recipe_data")
    /\ ret.value.ok
    /\ LET page == arg.text
           c == Cards(page)
       IN  /\ Cardinality(c) = 3
           /\ \E i, j, k \in c :
                 /\ i < j /\ j < k
                 /\ page[i].name = "sel" /\ page[j].name = "oeuf" /\ page[k].name = "sel"
                 /\ Strip(QuantityOf(page, i)) # Strip(QuantityOf(page, k))
                 /\ ret.value.ingredients_dict
                       = << [key |-> "sel", value |-> Strip(QuantityOf(page, k))],
                            [key |-> "oeuf", value |-> Strip(QuantityOf(page, j))] >>

(***************************************************************************)
(* Properties of the run (specification Spec), read off the history of     *)
(* fetches and the tables built.                                           *)
(***************************************************************************)
HrefsOfPage(page) ==
    LET anchors == SelectSeq(page, IsRecipeCardLink)
    IN  [k \in DOMAIN anchors |-> anchors[k].href]

HrefsTable ==
    [response \in {r \in ListingResponses : r.ok} |-> HrefsOfPage(response.text)]

Hrefs(response) == HrefsTable[response]

\* what scrape_recipe_data gives for the page of each recipe url
DataTable == [u \in LinkValues |-> scrape_recipe_data(Fetched[u])]

Listings == {i \in DOMAIN log : log[i].kind = "listing"}
Details == {i \in DOMAIN log : log[i].kind = "detail"}

ListingOf(c) == CHOOSE i \in Listings : log[i].cat = c

AbortedAt(i) == pc = "aborted" /\ i = Len(log)

\* the row built for the k-th link of category c, if there is one
HasRow(c, k) ==
    \/ c <= Len(df) /\ k <= Len(df[c])
    \/ c = Len(df) + 1 /\ c = cat /\ k <= Len(recipes_info)

RowOf(c, k) == IF c <= Len(df) THEN df[c][k] ELSE recipes_info[k]

Label(c) == <<"entree", "plat", "dessert">>[c]

RECURSIVE SumLen(_)
SumLen(seqs) == IF seqs = <<>> THEN 0 ELSE Len(Head(seqs)) + SumLen(Tail(seqs))

\* the number of links of the listing of category c, and the number of detail
\* pages of its category fetched up to the fetch i
count(c) == Len(Hrefs(log[ListingOf(c)].response))
after(i) == IF log[i].kind = "listing" THEN 0 ELSE log[i].idx

\* the table has one row per link, batch after batch, labelled and in link order
TableShape(rows) ==
    /\ Len(rows) = count(1) + count(2) + count(3)
    /\ \A c \in 1..3 : \A k \in 1..count(c) :
          LET before == IF c = 1 THEN 0
                        ELSE IF c = 2 THEN count(1) ELSE count(1) + count(2)
              r == rows[before + k]
          IN  /\ r.index = before + k - 1
              /\ r.row.RecipeType = Label(c)
              /\ r.row.URL = Hrefs(log[ListingOf(c)].response)[k]

\* C1 as stated: when every listing fetched answers and every detail page it
\* links to is extracted by scrape_recipe_data, the run ends with a table of
\* a+b+c rows, the batches labelled entree, plat, dessert in that order and
\* row i of a batch carrying the i-th link of its listing.
C1_Original ==
    LET extracted ==
            \A i \in Listings :
                /\ log[i].response.ok
                /\ \A k \in DOMAIN Hrefs(log[i].response) :
                      DataTable[Hrefs(log[i].response)[k]].ok
    IN  (pc \in {"done", "aborted"} /\ extracted) =>
            /\ pc = "done"
            /\ csv.written
            /\ TableShape(csv.rows)

\* t is the first whitespace-delimited token of the phrase p (nothing when p
\* holds no token)
IsFirstToken(t, p) ==
    /\ \A k \in DOMAIN t : t[k] \notin Whitespace
    /\ \E n \in 0..Len(p) :
          /\ t = SubSeq(p, 1, n)
          /\ n = Len(p) \/ p[n + 1] \in Whitespace
    /\ p # <<>> => t # <<>>

\* C9 as stated: for every detail page scrape_recipe_data extracted, the row
\* of that recipe stores as Comments the first whitespace-delimited token of
\* the phrase extracted, whatever the phrase, an empty one included.
C9_Original ==
    \A i \in Details :
        LET data == DataTable[log[i].url]
        IN  data.ok =>
                /\ HasRow(log[i].cat, log[i].idx)
                /\ IsFirstToken(RowOf(log[i].cat, log[i].idx).Comments,
                                data.recipe_comments)

\* C1, amended: when every listing fetched answers and every detail page it
\* links to is extracted by scrape_recipe_data with a comments phrase that
\* holds at least one token, the run ends with a table of a+b+c rows, the
\* batches labelled entree, plat, dessert in that order and row i of a batch
\* carrying the i-th link of its listing.
C1_TableOfAllLinks ==
    LET built ==
            \A i \in Listings :
                /\ log[i].response.ok
                /\ \A k \in DOMAIN Hrefs(log[i].response) :
                      LET data == DataTable[Hrefs(log[i].response)[k]]
                      IN  data.ok /\ NonBlank(data.recipe_comments)
    IN  (pc \in {"done", "aborted"} /\ built) =>
            /\ pc = "done"
            /\ csv.written
            /\ TableShape(csv.rows)

C1_Witness ==
    /\ pc = "done"
    /\ Len(csv.rows) = 5
    /\ Hrefs(log[ListingOf(1)].response) = <<"r/tarte", "r/soupe">>
    /\ Hrefs(log[ListingOf(2)].response) = <<"r/soupe">>
    /\ Hrefs(log[ListingOf(3)].response) = <<"r/soupe", "r/tarte">>
    /\ csv.rows[3].row.RecipeType = "plat"
    /\ csv.rows[5].row.URL = "r/tarte"

\* C9, amended: for every detail page scrape_recipe_data extracted with a
\* comments phrase holding at least one token, the row of that recipe stores
\* as Comments the first whitespace-delimited token of the phrase; a phrase
\* that is empty after trimming has no first token: split()[0] raises
\* IndexError, the run ends there and the recipe gets no row.
C9_FirstTokenOrIndexError ==
    \A i \in Details :
        LET data == DataTable[log[i].url]
        IN  data.ok =>
                IF NonBlank(data.recipe_comments)
                THEN /\ HasRow(log[i].cat, log[i].idx)
                     /\ IsFirstToken(RowOf(log[i].cat, log[i].idx).Comments,
                                     data.recipe_comments)
                ELSE /\ AbortedAt(i)
                     /\ fault = "IndexError"
                     /\ ~HasRow(log[i].cat, log[i].idx)

C9_Witness ==
    /\ pc = "done"
    /\ \E i \in Details :
          /\ DataTable[log[i].url].recipe_comments
                = <<"4", "2", " ", "a", "v", "i", "s">>
          /\ RowOf(log[i].cat, log[i].idx).Comments = <<"4", "2">>

\* the fetch i raised, or the page it returned did not give its row
Faulted(i) ==
    \/ ~log[i].response.ok
    \/ /\ log[i].kind = "detail"
       /\ ~RowOfUrl[log[i].url][Label(log[i].cat)].ok

\* C2: a run completes or ends at its first fault with no output.  Once a
\* listing fetch, a detail fetch or the extraction of a row has faulted the run
\* is over: that fetch is the last one, nothing runs after it and the file is
\* never written.  The file is written at most once, by line 178, after the
\* three batches are built and concatenated, and only in a run with no fault.
C2_AbortNoPartialOutput ==
    /\ [](/\ \A i \in DOMAIN log :
                Faulted(i) => AbortedAt(i) /\ fault # None /\ ~csv.written
          /\ fault # None => pc = "aborted" /\ ~csv.written
          /\ csv.written =>
                /\ pc = "done"
                /\ Len(df) = 3
                /\ csv.rows = df_final
                /\ Len(csv.rows) = SumLen(df)
                /\ \A i \in DOMAIN log : ~Faulted(i))
    /\ [][/\ pc # "aborted"
          /\ csv' # csv => ~csv.written /\ pc = "to_csv" /\ Len(df) = 3]_vars

C2_Witness ==
    /\ pc = "aborted"
    /\ fault = "AttributeError"
    /\ Len(df) = 2
    /\ Len(df[1]) = 2
    /\ Len(recipes_info) = 1
    /\ ~csv.written

\* the row each recipe url would give were its page answered with status 200
RowIf200 ==
    [u \in {v \in LinkValues : Fetched[v].ok} |->
        scrape_recipes_info_row(Response(200, Fetched[u].text), u, "entree")]

\* C3 as stated: a fetch that raises or that answers with a non-2xx status
\* ends the run.
C3_Original ==
    \A i \in DOMAIN log :
        (~log[i].response.ok \/ log[i].response.status \notin 200..299)
            => AbortedAt(i)

\* C3, amended: no fetch is issued twice and no status code is read.  A fetch
\* that raises (network failure, no url) ends the run with that exception.  A
\* response, whatever its status, raises nothing by itself: its body is parsed
\* as the body of a 200 response would be, so a listing answered with a
\* non-2xx status gives the links of its body and the run goes on, and a
\* detail page answered with a non-2xx status ends the run only when its
\* body does not give a row.
C3_NoStatusCheck ==
    /\ \A i, j \in DOMAIN log :
          (log[i].kind = log[j].kind /\ log[i].cat = log[j].cat
              /\ log[i].idx = log[j].idx) => i = j
    /\ \A i \in DOMAIN log :
          LET r == log[i].response
          IN  /\ ~r.ok => AbortedAt(i) /\ fault = r.exc
              /\ (r.ok /\ log[i].kind = "listing") =>
                    /\ ~AbortedAt(i)
                    /\ log[i].cat = cat => urls = Hrefs(r)
              /\ (r.ok /\ log[i].kind = "detail") =>
                    (AbortedAt(i) <=> ~RowIf200[log[i].url].ok)

C3_Witness ==
    /\ pc = "done"
    /\ log[1].response.ok
    /\ log[1].response.status = 404
    /\ Len(df[1]) = 1
    /\ Len(csv.rows) > 1

\* the markers C4 names, as the page shows them
NoH1(page) == \A i \in DOMAIN page : ~IsH1(page[i])
NoRating(page) == \A i \in DOMAIN page : ~IsRatingText(page[i])
NoCommentIcon(page) == \A i \in DOMAIN page : ~IsCommentIcon(page[i])
NoReviewAnchor(page) == ~ReviewAnchorAfterIcon(page)
NoDifficultyIcon(page) == \A i \in DOMAIN page : ~IsDifficultyIcon(page[i])
NoTimerIcon(page) == \A i \in DOMAIN page : ~IsTimerIcon(page[i])
NoCard(page) == Cards(page) = {}
CardWithoutOwnCount(page) == \E i \in Cards(page) : ~HasOwnCount(page, i)
CardWithNoCountAfter(page) ==
    \E i \in Cards(page) : \A j \in (i + 1)..Len(page) : ~IsCount(page[j])

HeaderMarkerAbsent(page) ==
    \/ NoH1(page) \/ NoRating(page) \/ NoCommentIcon(page) \/ NoReviewAnchor(page)
    \/ NoDifficultyIcon(page) \/ NoTimerIcon(page)

\* the recipe urls whose page lacks a marker, in the reading of C4 as stated
\* and in the amended reading, and those whose page lacks none
ServedUrls == {u \in LinkValues : Fetched[u].ok}

LackingAsStated ==
    {u \in ServedUrls :
        LET page == Fetched[u].text
        IN  HeaderMarkerAbsent(page) \/ NoCard(page) \/ CardWithoutOwnCount(page)}

LackingAmended ==
    {u \in ServedUrls :
        LET page == Fetched[u].text
        IN  HeaderMarkerAbsent(page) \/ CardWithNoCountAfter(page)}

LackingNothing ==
    {u \in ServedUrls \ LackingAmended :
        LET page == Fetched[u].text
        IN  SpanAfterDifficultyIcon(page) /\ SpanAfterTimerIcon(page)}

\* no row, whole or partial, for the page fetched at i, and no file
NoRowFor(i) ==
    /\ ~HasRow(log[i].cat, log[i].idx)
    /\ Len(recipes_info) = log[i].idx - 1
    /\ ~csv.written

\* C4 as stated: a detail page lacking the heading, the rating, the comment
\* icon or its review anchor, the difficulty icon, the timer icon, an
\* ingredient card, or the count of one of its cards, ends the run with no row
\* for that recipe.
C4_Original ==
    \A i \in Details :
        log[i].url \in LackingAsStated => AbortedAt(i) /\ NoRowFor(i)

\* C4, amended: a detail page lacking the heading, the rating, the comment
\* icon or its review anchor, the difficulty icon or the timer icon, or holding
\* an ingredient card with no count element anywhere after it, makes
\* scrape_recipe_data raise, and the run ends there with no row for that
\* recipe.  A page with no ingredient card does not fail on that account (its
\* mapping is empty), nor does a card with no count of its own when a later
\* count exists (it takes that one).
C4_MissingMarkerAborts ==
    \A i \in Details :
        /\ log[i].url \in LackingAmended =>
              AbortedAt(i) /\ fault = "AttributeError" /\ NoRowFor(i)
        /\ log[i].url \in LackingNothing =>
              ~(AbortedAt(i) /\ fault = "AttributeError")

C4_Witness ==
    /\ pc = "aborted"
    /\ fault = "AttributeError"
    /\ log[Len(log)].url = "r/no-difficulty-icon"
    /\ NoDifficultyIcon(log[Len(log)].response.text)
    /\ log[Len(log)].idx = 2
    /\ recipes_info # <<>>
    /\ recipes_info[1].URL = "r/soupe"

\* C10: fetches are issued one at a time in a fixed order: the entree listing,
\* its detail pages in link order, the plat listing, its detail pages, the
\* dessert listing, its detail pages.  A run that gets to the end issues
\* 3 + (a+b+c) fetches, and the write of the file is its last event, after the
\* last dessert page has given its row.
C10_FetchOrder ==
    /\ [](/\ \A i \in DOMAIN log :
                IF log[i].kind = "listing"
                THEN /\ log[i].url = <<url_entree, url_plat, url_dessert>>[log[i].cat]
                     /\ i = 1 => log[i].cat = 1
                     /\ i > 1 => /\ log[i].cat = log[i - 1].cat + 1
                                 /\ after(i - 1) = count(log[i - 1].cat)
                ELSE /\ i > 1
                     /\ log[i - 1].cat = log[i].cat
                     /\ log[i].idx = after(i - 1) + 1
                     /\ log[i].idx <= count(log[i].cat)
                     /\ log[i].url = Hrefs(log[ListingOf(log[i].cat)].response)[log[i].idx]
          /\ pc \in {"append_dataframes", "to_csv", "done"} =>
                Len(log) = 3 + count(1) + count(2) + count(3)
          /\ csv.written =>
                /\ pc = "done"
                /\ Len(csv.rows) = count(1) + count(2) + count(3))
    /\ [][Len(log') <= Len(log) + 1 /\ ~csv.written]_vars

C10_Witness ==
    /\ pc = "done"
    /\ Len(log) = 9
    /\ log[4].kind = "listing" /\ log[4].url = url_plat
    /\ log[6].kind = "detail" /\ log[6].idx = 2
    /\ log[7].url = url_dessert

=============================================================================
